---- MODULE Spec2Model ----
(***************************************************************************)
(* Model of the AI-classifier service: the tariff gateway tools            *)
(* (au/tools.py), the classification schema (au/tools.py), the bearer-auth *)
(* middleware (main.py) and the batch coordinator behind au_router.        *)
(*                                                                         *)
(* Strings are sequences of one-character strings, so that strip(),        *)
(* isdigit(), slicing, lower(), startswith() and split() are computed the  *)
(* way Python computes them.                                               *)
(***************************************************************************)
EXTENDS Integers, Sequences, FiniteSets, TLC

VARIABLES
    pc,         \* gateway call position: "idle", "awaiting", "done"
    op,         \* gateway operation in progress
    input,      \* the argument the operation was called with
    requests,   \* outbound GET requests issued by the call, in order
    responses,  \* what the service answered to each request (NoResponse: pending)
    ret,        \* outcome of the call: a returned value or a raised exception
    first,      \* the first of two repeated tariff_search calls, once completed
    authpc,     \* middleware position: "idle", "received", "responded"
    AUTH_TOKEN, \* module-level token fixed at startup
    request,    \* the HTTP request the middleware is dispatching
    http,       \* the middleware's response: status and whether call_next ran
    candidate,  \* model output handed to ClassificationResult validation
    accepted,   \* whether pydantic accepted the candidate
    items,      \* per-item agent loop state of the batch
    response    \* entries of the ClassificationResponse under construction

gatewayVars == <<pc, op, input, requests, responses, ret, first>>
authVars == <<authpc, AUTH_TOKEN, request, http>>
schemaVars == <<candidate, accepted>>
batchVars == <<items, response>>
vars == <<pc, op, input, requests, responses, ret, first, authpc, AUTH_TOKEN,
          request, http, candidate, accepted, items, response>>

----------------------------------------------------------------------------
(* Bounds *)

MaxLen == 3        \* free-form input strings have at most this many characters
MaxDigits == 9     \* all-digit input strings have at most this many characters
MaxOthers == 3     \* a model output lists at most this many other suggested codes
NumItems == 3      \* a classification request has at most this many items
MaxIterations == 2 \* tool-call rounds an agent loop may take (its iteration cap)

----------------------------------------------------------------------------
(* Python string primitives *)

DigitChars == {"1", "2"}
Whitespace == {" "}
Alphabet == DigitChars \cup Whitespace \cup {"a"}

SeqsUpTo(S, n) == UNION {[1..k -> S] : k \in 0..n}

\* s[a:b] with 0-based, end-exclusive Python slice bounds
Slice(s, a, b) == [i \in 1..((IF b < Len(s) THEN b ELSE Len(s)) - a) |-> s[a + i]]

\* str.isdigit(): non-empty and every character a digit
isdigit(s) == Len(s) > 0 /\ \A i \in 1..Len(s) : s[i] \in DigitChars

RECURSIVE lstrip(_)
lstrip(s) == IF s # <<>> /\ Head(s) \in Whitespace THEN lstrip(Tail(s)) ELSE s

RECURSIVE rstrip(_)
rstrip(s) ==
    IF s # <<>> /\ s[Len(s)] \in Whitespace THEN rstrip(SubSeq(s, 1, Len(s) - 1)) ELSE s

\* str.strip(): drop leading and trailing whitespace
strip(s) == rstrip(lstrip(s))

----------------------------------------------------------------------------
(* JSON values and HTTP outcomes *)

\* Every JSON value carries its type and a record of its content.
JList(v) == [t |-> "list", v |-> [elems |-> v]]
JDict(v) == [t |-> "dict", v |-> v]
JNull == [t |-> "null", v |-> [elems |-> <<>>]]
Garbage == [t |-> "garbage", v |-> [elems |-> <<>>]]     \* a body that is not JSON

Bodies == {JList(<<>>), JList(<<"line">>), JDict([note |-> "n"]), JNull, Garbage}

NoResponse == [net |-> "pending", status |-> 0, body |-> JNull]

\* A request either gets an HTTP response or fails in the transport
\* (httpx.ReadTimeout after the 30 s timeout, httpx.ConnectError).
HttpResponses == [net : {"ok"}, status : {200, 500}, body : Bodies]
TransportFailures == [net : {"ReadTimeout", "ConnectError"}, status : {0}, body : {JNull}]
ServiceOutcomes == HttpResponses \cup TransportFailures

\* httpx.HTTPError is the base of every transport exception;
\* json.JSONDecodeError is a ValueError.
HTTPError == {"ReadTimeout", "ConnectError"}
ValueError == {"JSONDecodeError"}

Return(v) == [kind |-> "return", val |-> v]
Raise(e) == [kind |-> "raise", val |-> [t |-> "exception", v |-> [name |-> e]]]
NoResult == [kind |-> "none", val |-> JNull]

\* Response.json(): the parsed body, or JSONDecodeError
json(res) == IF res.body = Garbage THEN Raise("JSONDecodeError") ELSE Return(res.body)

\* try: <outcome> except <caught>: <handler value>
Except(outcome, caught, handler) ==
    IF outcome.kind = "raise" /\ outcome.val.v.name \in caught THEN Return(handler) ELSE outcome

----------------------------------------------------------------------------
(* Tariff gateway: tariff_chapter_lookup, tariff_search,                   *)
(* tariff_concession_lookup                                                *)

Req(endpoint, param, value) == [endpoint |-> endpoint, param |-> param, value |-> value]

ChapterDefault == JDict([rawData |-> JList(<<>>), chapterNotes |-> JNull])
SearchDefault == JList(<<>>)
InvalidByLaw == JDict([results |-> <<>>, content |-> "invalid by-law number"])
EmptyResults == JDict([results |-> <<>>])

\* if not code.isdigit() or len(code) < 4
chapter_rejects(code) == ~isdigit(code) \/ Len(code) < 4

\* the four-digit heading taken for the chapter
chapter_code_heading(code) == Slice(code, 0, 4)

\* chapter_code = code[:2]
chapter_code(code) == Slice(code, 0, 2)

\* tariffs_url, notes_url and the two client.get() coroutines handed to gather
chapter_requests(code) ==
    << Req("tariffs/chapter_flatten_tariffs", "code", code),
       Req("chapters/by_code", "code", chapter_code(code)) >>

\* try: if res.status_code == 200: field = res.json()
\* except (ValueError, httpx.HTTPError): field = default
chapter_field(res, default) ==
    Except(IF res.status = 200 THEN json(res) ELSE Return(default),
           ValueError \cup HTTPError, default)

\* one bad response discards both fields
chapter_result_all_or_nothing(tariffs_res, notes_res) ==
    IF tariffs_res.status = 200 /\ tariffs_res.body # Garbage
       /\ notes_res.status = 200 /\ notes_res.body # Garbage
    THEN Return(JDict([rawData |-> tariffs_res.body, chapterNotes |-> notes_res.body]))
    ELSE Return(ChapterDefault)

\* {"rawData": raw, "chapterNotes": notes}
chapter_result(tariffs_res, notes_res) ==
    LET raw == chapter_field(tariffs_res, JList(<<>>))
        notes == chapter_field(notes_res, JNull)
    IN  IF raw.kind = "raise" THEN raw
        ELSE IF notes.kind = "raise" THEN notes
        ELSE Return(JDict([rawData |-> raw.val, chapterNotes |-> notes.val]))

\* asyncio.gather outside any try block: the first request to fail raises
\* out of the function; otherwise both responses are parsed
chapter_after_gather(rs) ==
    IF \E i \in 1..Len(rs) : rs[i].net \in HTTPError
    THEN {Raise(rs[i].net) : i \in {j \in 1..Len(rs) : rs[j].net \in HTTPError}}
    ELSE {chapter_result(rs[1], rs[2])}

\* the upper length limit left out
search_rejects_no_upper(code) == ~isdigit(code) \/ Len(code) < 2

\* if not code.isdigit() or not (2 <= len(code) <= 8)
search_rejects(code) == ~isdigit(code) \/ ~(2 <= Len(code) /\ Len(code) <= 8)

search_requests(code) == << Req("tariffs/chapter_flatten_tariffs", "code", code) >>

\* the isinstance(data, list) test left out
search_try_any_json(res) ==
    IF res.net \in HTTPError THEN Raise(res.net)
    ELSE IF res.status # 200 THEN Return(JList(<<>>))
    ELSE json(res)

\* the body of the try block of tariff_search
search_try(res) ==
    IF res.net \in HTTPError THEN Raise(res.net)
    ELSE IF res.status # 200 THEN Return(JList(<<>>))
    ELSE LET data == json(res)
         IN  IF data.kind = "raise" THEN data
             ELSE Return(IF data.val.t = "list" THEN data.val ELSE JList(<<>>))

\* except (httpx.HTTPError, ValueError): return []
search_result(res) == Except(search_try(res), HTTPError \cup ValueError, JList(<<>>))

\* if not num.isdigit()
concession_rejects(num) == ~isdigit(num)

concession_requests(num) == << Req("book_nodes/search", "term", num) >>

\* the status test left out
concession_try_no_status(res) ==
    IF res.net \in HTTPError THEN Raise(res.net) ELSE json(res)

\* the body of the try block of tariff_concession_lookup
concession_try(res) ==
    IF res.net \in HTTPError THEN Raise(res.net)
    ELSE IF res.status # 200 THEN Return(EmptyResults)
    ELSE json(res)

\* except (httpx.HTTPError, ValueError): return {"results": []}
concession_result(res) == Except(concession_try(res), HTTPError \cup ValueError, EmptyResults)

----------------------------------------------------------------------------
(* Inputs of the gateway calls *)

Ones(k) == [i \in 1..k |-> "1"]
DigitStrings == {p \o Ones(k) : p \in [1..2 -> DigitChars], k \in 0..(MaxDigits - 2)}
Pads == {<<>>, <<" ">>}
Inputs == {l \o b \o r : l \in Pads, r \in Pads,
                         b \in SeqsUpTo(Alphabet, MaxLen) \cup DigitStrings}

NoCall == [input |-> <<>>, requests |-> <<>>, responses |-> <<>>, ret |-> NoResult]

----------------------------------------------------------------------------
(* Gateway actions *)

Begin(name, s, rejected, default, reqs) ==
    /\ pc = "idle"
    /\ op' = name
    /\ input' = s
    /\ IF rejected
       THEN /\ pc' = "done"
            /\ requests' = <<>>
            /\ responses' = <<>>
            /\ ret' = Return(default)
       ELSE /\ pc' = "awaiting"
            /\ requests' = reqs
            /\ responses' = [i \in 1..Len(reqs) |-> NoResponse]
            /\ ret' = NoResult

tariff_chapter_lookup_call(s) ==
    /\ LET code == strip(s)
       IN  Begin("tariff_chapter_lookup", s, chapter_rejects(code), ChapterDefault,
                 chapter_requests(code))
    /\ UNCHANGED <<first, authVars, schemaVars, batchVars>>

tariff_search_call(s) ==
    /\ LET code == strip(s)
       IN  Begin("tariff_search", s, search_rejects(code), SearchDefault,
                 search_requests(code))
    /\ UNCHANGED <<first, authVars, schemaVars, batchVars>>

tariff_concession_lookup_call(s) ==
    /\ LET num == strip(s)
       IN  Begin("tariff_concession_lookup", s, concession_rejects(num), InvalidByLaw,
                 concession_requests(num))
    /\ UNCHANGED <<first, authVars, schemaVars, batchVars>>

\* The tariff service answers one pending request, or the request fails.
Deliver(i, r) ==
    /\ pc = "awaiting"
    /\ i \in 1..Len(requests)
    /\ responses[i] = NoResponse
    /\ responses' = [responses EXCEPT ![i] = r]
    /\ UNCHANGED <<pc, op, input, requests, ret, first, authVars, schemaVars, batchVars>>

tariff_chapter_lookup_resume ==
    /\ pc = "awaiting"
    /\ op = "tariff_chapter_lookup"
    /\ \/ \E i \in 1..Len(responses) : responses[i].net \in HTTPError
       \/ \A i \in 1..Len(responses) : responses[i] # NoResponse
    /\ ret' \in chapter_after_gather(responses)
    /\ pc' = "done"
    /\ UNCHANGED <<op, input, requests, responses, first, authVars, schemaVars, batchVars>>

tariff_search_resume ==
    /\ pc = "awaiting"
    /\ op = "tariff_search"
    /\ responses[1] # NoResponse
    /\ ret' = search_result(responses[1])
    /\ pc' = "done"
    /\ UNCHANGED <<op, input, requests, responses, first, authVars, schemaVars, batchVars>>

tariff_concession_lookup_resume ==
    /\ pc = "awaiting"
    /\ op = "tariff_concession_lookup"
    /\ responses[1] # NoResponse
    /\ ret' = concession_result(responses[1])
    /\ pc' = "done"
    /\ UNCHANGED <<op, input, requests, responses, first, authVars, schemaVars, batchVars>>

\* The agent takes the outcome of the call; the gateway keeps nothing.
Finish ==
    /\ pc = "done"
    /\ pc' = "idle"
    /\ op' = "none"
    /\ input' = <<>>
    /\ requests' = <<>>
    /\ responses' = <<>>
    /\ ret' = NoResult
    /\ UNCHANGED <<first, authVars, schemaVars, batchVars>>

\* The agent keeps the outcome of a tariff_search call to compare a repeat with.
FinishFirst ==
    /\ pc = "done"
    /\ first = NoCall
    /\ first' = [input |-> input, requests |-> requests, responses |-> responses, ret |-> ret]
    /\ pc' = "idle"
    /\ op' = "none"
    /\ input' = <<>>
    /\ requests' = <<>>
    /\ responses' = <<>>
    /\ ret' = NoResult
    /\ UNCHANGED <<authVars, schemaVars, batchVars>>

----------------------------------------------------------------------------
(* Bearer-auth middleware: _auth_dispatch                                  *)

\* str.lower() on the letters that occur in the modelled headers
LowerChar(c) ==
    CASE c = "B" -> "b" [] c = "E" -> "e" [] c = "A" -> "a" [] c = "R" -> "r"
      [] c = "T" -> "t" [] c = "K" -> "k" [] OTHER -> c

lower(s) == [i \in 1..Len(s) |-> LowerChar(s[i])]

\* str.startswith()
startswith(s, p) == Len(s) >= Len(p) /\ SubSeq(s, 1, Len(p)) = p

\* s.split(" ", 1): cut at the first space, if there is one
split_once(s) ==
    IF \E i \in 1..Len(s) : s[i] = " "
    THEN LET k == CHOOSE i \in 1..Len(s) : s[i] = " " /\ \A j \in 1..(i - 1) : s[j] # " "
         IN  << SubSeq(s, 1, k - 1), SubSeq(s, k + 1, Len(s)) >>
    ELSE << s >>

_EXEMPT_PATHS == {
    <<"/">>,
    <<"/", "h", "e", "a", "l", "t", "h">>,
    <<"/", "o", "p", "e", "n", "a", "p", "i", ".", "j", "s", "o", "n">>,
    <<"/", "a", "p", "i", "/", "o", "p", "e", "n", "a", "p", "i", ".", "j", "s", "o", "n">>,
    <<"/", "d", "o", "c", "s">>,
    <<"/", "d", "o", "c", "s", "/", "o", "a", "u", "t", "h", "2", "-", "r", "e", "d", "i", "r", "e", "c", "t">>,
    <<"/", "r", "e", "d", "o", "c">> }

_EXEMPT_PREFIXES == { <<"/", "s", "t", "a", "t", "i", "c", "/">> }

DevToken == <<"t", "k">>
AuthTokens == { <<"t", "k">>, <<"T", "K">>, <<"t">>, <<"t", "k", " ">> }

NoRequest == [method |-> "none", path |-> <<>>, header |-> [present |-> FALSE, value |-> <<>>]]
NoHttp == [status |-> 0, detail |-> "", called |-> FALSE]

\* return await call_next(request)
CallNext == [status |-> 200, detail |-> "", called |-> TRUE]

\* JSONResponse(status_code=401, ...)
Unauthorized(detail) == [status |-> 401, detail |-> detail, called |-> FALSE]

\* the token comparison left out
_auth_dispatch_any_token(req, auth_token) ==
    IF req.method = "OPTIONS" THEN CallNext
    ELSE IF req.path \in _EXEMPT_PATHS
            \/ \E pfx \in _EXEMPT_PREFIXES : startswith(req.path, pfx)
    THEN CallNext
    ELSE IF ~req.header.present \/ req.header.value = <<>>
            \/ ~startswith(lower(req.header.value), <<"b", "e", "a", "r", "e", "r", " ">>)
    THEN Unauthorized("Unauthorized: missing Bearer token")
    ELSE CallNext

_auth_dispatch(req, auth_token) ==
    IF req.method = "OPTIONS" THEN CallNext
    ELSE IF req.path \in _EXEMPT_PATHS
            \/ \E pfx \in _EXEMPT_PREFIXES : startswith(req.path, pfx)
    THEN CallNext
    ELSE IF ~req.header.present \/ req.header.value = <<>>
            \/ ~startswith(lower(req.header.value), <<"b", "e", "a", "r", "e", "r", " ">>)
    THEN Unauthorized("Unauthorized: missing Bearer token")
    ELSE LET token == strip(split_once(req.header.value)[2])
         IN  IF token # auth_token
             THEN Unauthorized("Unauthorized: invalid token")
             ELSE CallNext

Methods == {"GET", "POST", "OPTIONS"}

Paths == _EXEMPT_PATHS \cup
    { <<"/", "s", "t", "a", "t", "i", "c", "/", "a", "p", "p", ".", "j", "s">>, <<"/", "s", "t", "a", "t", "i", "c">>, <<"/", "c", "l", "a", "s", "s", "i", "f", "y">>, <<"/", "h", "e", "a", "l", "t", "h", "z">> }

Schemes == { <<"B", "e", "a", "r", "e", "r">>, <<"b", "e", "a", "r", "e", "r">>, <<"B", "E", "A", "R", "E", "R">>, <<"B", "a", "s", "i", "c">>, <<"B", "e", "a", "r">> }
Separators == { <<>>, <<" ">>, <<" ", " ">> }
Credentials == AuthTokens \cup { <<>>, <<"t", " ", "k">> }

Headers ==
    {[present |-> FALSE, value |-> <<>>]} \cup
    {[present |-> TRUE, value |-> sch \o sep \o cred \o pad] :
        sch \in Schemes \cup {<<>>}, sep \in Separators, cred \in Credentials, pad \in Pads}

Receive(m, p, h) ==
    /\ authpc = "idle"
    /\ authpc' = "received"
    /\ request' = [method |-> m, path |-> p, header |-> h]
    /\ http' = NoHttp
    /\ UNCHANGED <<AUTH_TOKEN, gatewayVars, schemaVars, batchVars>>

Dispatch ==
    /\ authpc = "received"
    /\ authpc' = "responded"
    /\ http' = _auth_dispatch(request, AUTH_TOKEN)
    /\ UNCHANGED <<AUTH_TOKEN, request, gatewayVars, schemaVars, batchVars>>

Respond ==
    /\ authpc = "responded"
    /\ authpc' = "idle"
    /\ request' = NoRequest
    /\ http' = NoHttp
    /\ UNCHANGED <<AUTH_TOKEN, gatewayVars, schemaVars, batchVars>>

----------------------------------------------------------------------------
(* Classification schema: SuggestedCode, ClassificationResult              *)

Str(s) == [t |-> "str", v |-> [elems |-> s]]
Missing == [t |-> "missing", v |-> [elems |-> <<>>]]

\* a field declared `str = Field(...)`: required, and a string
required_str(f) == f.t = "str"

\* class SuggestedCode: hs_code and stat_code required strings
SuggestedCode_validate(c) == required_str(c.hs_code) /\ required_str(c.stat_code)

\* other_suggested_codes: List[SuggestedCode] = Field(default_factory=list)
other_suggested_codes_field(f) ==
    IF f = Missing THEN Return(JList(<<>>))
    ELSE IF f.t = "list" /\ \A i \in 1..Len(f.v.elems) : SuggestedCode_validate(f.v.elems[i])
    THEN Return(f)
    ELSE Raise("ValidationError")

\* class ClassificationResult: the model built from a candidate, or ValidationError
ClassificationResult_validate(c) ==
    LET others == other_suggested_codes_field(c.other_suggested_codes)
    IN  IF /\ required_str(c.id)
           /\ required_str(c.description)
           /\ required_str(c.best_suggested_hs_code)
           /\ required_str(c.best_suggested_stat_code)
           /\ required_str(c.reasoning)
           /\ others.kind = "return"
        THEN [ok |-> TRUE,
              model |-> [id |-> c.id,
                         description |-> c.description,
                         best_suggested_hs_code |-> c.best_suggested_hs_code,
                         best_suggested_stat_code |-> c.best_suggested_stat_code,
                         other_suggested_codes |-> others.val.v.elems,
                         reasoning |-> c.reasoning]]
        ELSE [ok |-> FALSE, model |-> <<>>]

HsCodes == { Str(<<"1", "2", "3", "4", "5", "6", "7", "8">>), Str(<<"8", "7", "6", "5", "4", "3", "2", "1">>), Str(<<"1", "2", "3", "4", ".", "5", "6", ".", "7", "8">>), Str(<<"1", "2", "3", "4">>) }
StatCodes == { Str(<<"0", "1">>), Str(<<"0", "2">>), Str(<<"0", "1", "2">>) }

SuggestedCodes ==
    { [hs_code |-> Str(<<"1", "2", "3", "4", "5", "6", "7", "8">>), stat_code |-> Str(<<"0", "1">>)],
      [hs_code |-> Str(<<"8", "7", "6", "5", "4", "3", "2", "1">>), stat_code |-> Str(<<"0", "2">>)],
      [hs_code |-> Str(<<"1", "2", "3", "4", ".", "5", "6", ".", "7", "8">>), stat_code |-> Str(<<"0", "1">>)],
      [hs_code |-> Str(<<"8", "7", "6", "5", "4", "3", "2", "1">>), stat_code |-> JNull] }

Candidates ==
    [ id : {Str(<<"1">>), Missing},
      description : {Str(<<"d">>)},
      best_suggested_hs_code : HsCodes \cup {JNull},
      best_suggested_stat_code : StatCodes \cup {Missing},
      other_suggested_codes : {Missing} \cup {JList(l) : l \in SeqsUpTo(SuggestedCodes, MaxOthers)},
      reasoning : {Str(<<"r">>), Missing} ]

NoCandidate ==
    [ id |-> Missing, description |-> Missing,
      best_suggested_hs_code |-> Missing, best_suggested_stat_code |-> Missing,
      other_suggested_codes |-> Missing, reasoning |-> Missing ]
NotValidated == [ok |-> FALSE, model |-> <<>>]

\* the model emits its final output
Emit(c) ==
    /\ candidate = NoCandidate
    /\ candidate' = c
    /\ accepted' = NotValidated
    /\ UNCHANGED <<gatewayVars, authVars, batchVars>>

\* the output is validated against ClassificationResult
Validate ==
    /\ candidate # NoCandidate
    /\ accepted = NotValidated
    /\ accepted' = ClassificationResult_validate(candidate)
    /\ accepted'.ok
    /\ UNCHANGED <<candidate, gatewayVars, authVars, batchVars>>

\* pydantic raises ValidationError: nothing is constructed
Reject ==
    /\ candidate # NoCandidate
    /\ ~ClassificationResult_validate(candidate).ok
    /\ candidate' = NoCandidate
    /\ UNCHANGED <<accepted, gatewayVars, authVars, batchVars>>

\* the validated result is handed on
Consume ==
    /\ accepted.ok
    /\ candidate' = NoCandidate
    /\ accepted' = NotValidated
    /\ UNCHANGED <<gatewayVars, authVars, batchVars>>

----------------------------------------------------------------------------
(* Batch coordinator and per-item agent loop                               *)

Started == [state |-> "Started", round |-> 0, retries |-> 0]

Entry(id, kind) == [id |-> id, kind |-> kind]

\* a completed item contributes its ClassificationResult
DoneEntry(id) == << Entry(id, "result") >>

\* a failed item left out of the response
FailedEntry_dropped(id) == << >>

\* a failed item contributes an explicit error entry
FailedEntry(id) == << Entry(id, "error") >>

\* a request with n items arrives; one agent loop is launched per item
Classify(n) ==
    /\ items = <<>>
    /\ items' = [i \in 1..n |-> Started]
    /\ response' = <<>>
    /\ UNCHANGED <<gatewayVars, authVars, schemaVars>>

\* the model asks for a tool call, within the iteration cap
ToolCall(i) ==
    /\ i \in DOMAIN items
    /\ items[i].state \in {"Started", "ToolResultReceived"}
    /\ items[i].round < MaxIterations
    /\ items' = [items EXCEPT ![i].state = "ToolCallPending", ![i].round = @ + 1]
    /\ UNCHANGED <<response, gatewayVars, authVars, schemaVars>>

\* the tool call completes and its result is fed back to the model
ToolResult(i) ==
    /\ i \in DOMAIN items
    /\ items[i].state = "ToolCallPending"
    /\ items' = [items EXCEPT ![i].state = "ToolResultReceived"]
    /\ UNCHANGED <<response, gatewayVars, authVars, schemaVars>>

\* the model emits its final structured output
Finalize(i) ==
    /\ i \in DOMAIN items
    /\ items[i].state \in {"Started", "ToolResultReceived"}
    /\ items' = [items EXCEPT ![i].state = "Finalizing"]
    /\ UNCHANGED <<response, gatewayVars, authVars, schemaVars>>

\* output failing validation gets one corrective retry
Retry(i) ==
    /\ i \in DOMAIN items
    /\ items[i].state = "Finalizing"
    /\ items[i].retries = 0
    /\ items' = [items EXCEPT ![i].retries = 1]
    /\ UNCHANGED <<response, gatewayVars, authVars, schemaVars>>

\* valid output: the item is Done and its result is collected
Complete(i) ==
    /\ i \in DOMAIN items
    /\ items[i].state = "Finalizing"
    /\ items' = [items EXCEPT ![i].state = "Done"]
    /\ response' = response \o DoneEntry(i)
    /\ UNCHANGED <<gatewayVars, authVars, schemaVars>>

\* a second validation failure, or an exceeded iteration or time budget
\* (among them a lookup that timed out): the item is Failed
Fail(i) ==
    /\ i \in DOMAIN items
    /\ \/ items[i].state = "Finalizing" /\ items[i].retries = 1
       \/ items[i].state = "ToolCallPending"
       \/ items[i].state = "ToolResultReceived" /\ items[i].round = MaxIterations
    /\ items' = [items EXCEPT ![i].state = "Failed"]
    /\ response' = response \o FailedEntry(i)
    /\ UNCHANGED <<gatewayVars, authVars, schemaVars>>

\* every item has ended: the response is returned
Reply ==
    /\ items # <<>>
    /\ \A i \in DOMAIN items : items[i].state \in {"Done", "Failed"}
    /\ items' = <<>>
    /\ response' = <<>>
    /\ UNCHANGED <<gatewayVars, authVars, schemaVars>>

----------------------------------------------------------------------------
(* Specifications *)

GatewayIdle ==
    /\ pc = "idle"
    /\ op = "none"
    /\ input = <<>>
    /\ requests = <<>>
    /\ responses = <<>>
    /\ ret = NoResult
    /\ first = NoCall

AuthIdle ==
    /\ authpc = "idle"
    /\ request = NoRequest
    /\ http = NoHttp

SchemaIdle ==
    /\ candidate = NoCandidate
    /\ accepted = NotValidated

BatchIdle ==
    /\ items = <<>>
    /\ response = <<>>

Init == GatewayIdle /\ AuthIdle /\ AUTH_TOKEN = DevToken /\ SchemaIdle /\ BatchIdle

Next ==
    \/ \E s \in Inputs : tariff_chapter_lookup_call(s)
    \/ \E s \in Inputs : tariff_search_call(s)
    \/ \E s \in Inputs : tariff_concession_lookup_call(s)
    \/ \E i \in 1..2, r \in ServiceOutcomes : Deliver(i, r)
    \/ tariff_chapter_lookup_resume
    \/ tariff_search_resume
    \/ tariff_concession_lookup_resume
    \/ Finish

Spec == Init /\ [][Next]_vars

\* tariff_search called twice with the same argument
SearchOnce(s) == first = NoCall /\ tariff_search_call(s)
SearchAgain == first # NoCall /\ tariff_search_call(first.input)

NextTwice ==
    \/ \E s \in Inputs : SearchOnce(s)
    \/ SearchAgain
    \/ \E i \in 1..1, r \in ServiceOutcomes : Deliver(i, r)
    \/ tariff_search_resume
    \/ FinishFirst

SpecTwice == Init /\ [][NextTwice]_vars

\* the middleware dispatching requests, under any startup token
InitAuth == GatewayIdle /\ AuthIdle /\ AUTH_TOKEN \in AuthTokens /\ SchemaIdle /\ BatchIdle

NextAuth ==
    \/ \E m \in Methods, p \in Paths, h \in Headers : Receive(m, p, h)
    \/ Dispatch
    \/ Respond

SpecAuth == InitAuth /\ [][NextAuth]_vars

\* model outputs validated against the classification schema
NextSchema ==
    \/ \E c \in Candidates : Emit(c)
    \/ Validate
    \/ Reject
    \/ Consume

SpecSchema == Init /\ [][NextSchema]_vars

\* a batch of items classified concurrently
NextBatch ==
    \/ \E n \in 1..NumItems : Classify(n)
    \/ \E i \in 1..NumItems : ToolCall(i)
    \/ \E i \in 1..NumItems : ToolResult(i)
    \/ \E i \in 1..NumItems : Finalize(i)
    \/ \E i \in 1..NumItems : Retry(i)
    \/ \E i \in 1..NumItems : Complete(i)
    \/ \E i \in 1..NumItems : Fail(i)
    \/ Reply

SpecBatch == Init /\ [][NextBatch]_vars

----------------------------------------------------------------------------
(* Gateway properties *)

\* "Malformed" as the contract words it: a non-digit string, or a digit
\* string of the wrong length for the operation
Malformed(o, s) ==
    CASE o = "tariff_chapter_lookup" -> ~isdigit(s) \/ Len(s) < 4
      [] o = "tariff_search" -> ~isdigit(s) \/ Len(s) < 2 \/ Len(s) > 8
      [] o = "tariff_concession_lookup" -> ~isdigit(s)
      [] OTHER -> FALSE

\* The value each operation returns for a malformed input
Default(o) ==
    CASE o = "tariff_chapter_lookup" -> ChapterDefault
      [] o = "tariff_search" -> SearchDefault
      [] o = "tariff_concession_lookup" -> InvalidByLaw
      [] OTHER -> JNull

Bad(r) == r.net = "ok" /\ (r.status # 200 \/ r.body = Garbage)
Good(r) == r.net = "ok" /\ r.status = 200 /\ r.body # Garbage
Unparsable(r) == r.net = "ok" /\ (r.status = 500 \/ r.body = Garbage)
Answered == responses # <<>> /\ \A i \in 1..Len(responses) : responses[i].net = "ok"

\* C1 as stated: every input that is not all digits, or is all digits of the
\* wrong length, makes the operation return its default without any request.
C1_AsStated ==
    (pc = "done" /\ Malformed(op, input))
        => (requests = <<>> /\ ret = Return(Default(op)))

\* C1 amended: every input that is malformed once its leading and trailing
\* whitespace is stripped makes the operation return its default value without
\* issuing any request.
C1_MalformedNoRequest ==
    (pc = "done" /\ Malformed(op, strip(input)))
        => (requests = <<>> /\ ret = Return(Default(op)))

C1_Witness ==
    /\ pc = "done"
    /\ op = "tariff_search"
    /\ isdigit(strip(input))
    /\ Len(strip(input)) = 9
    /\ requests = <<>>
    /\ ret = Return(SearchDefault)

\* C2 as stated: with a valid input, HTTP 500 or an unparsable body makes each
\* operation return exactly the value it returns for a malformed input.
C2_AsStated ==
    (pc = "done" /\ ~Malformed(op, input) /\ Answered
        /\ \A i \in 1..Len(responses) : Unparsable(responses[i]))
        => ret = Return(Default(op))

\* C2 amended: with a valid input, when every request of the call is answered
\* with HTTP 500 or an unparsable body, the call never raises;
\* tariff_chapter_lookup and tariff_search return exactly their malformed-input
\* value, and tariff_concession_lookup returns {"results": []}, which is its
\* malformed-input value without the "content" message.
C2_BadAnswerDefault ==
    (pc = "done" /\ ~Malformed(op, input) /\ Answered
        /\ \A i \in 1..Len(responses) : Unparsable(responses[i]))
        => /\ ret.kind = "return"
           /\ IF op = "tariff_concession_lookup"
              THEN /\ ret.val = EmptyResults
                   /\ DOMAIN ret.val.v = DOMAIN InvalidByLaw.v \ {"content"}
                   /\ ret.val.v.results = InvalidByLaw.v.results
              ELSE ret.val = Default(op)

C2_Witness ==
    /\ pc = "done"
    /\ op = "tariff_concession_lookup"
    /\ isdigit(input)
    /\ Answered
    /\ responses[1].status = 200
    /\ responses[1].body = Garbage
    /\ ret = Return(EmptyResults)

\* C3 as stated: a transport failure or timeout of any outbound request is
\* never raised to the caller; the call returns, with the empty/default value
\* in place of what the failed request would have supplied.
C3_TransportFailureSwallowed ==
    (pc = "done" /\ \E i \in 1..Len(responses) : responses[i].net \in HTTPError)
        => /\ ret.kind = "return"
           /\ op = "tariff_search" => ret.val = SearchDefault
           /\ op = "tariff_concession_lookup" => ret.val = EmptyResults
           /\ op = "tariff_chapter_lookup" =>
                /\ responses[1].net \in HTTPError => ret.val.v.rawData = JList(<<>>)
                /\ responses[2].net \in HTTPError => ret.val.v.chapterNotes = JNull

\* C4: a valid input of tariff_chapter_lookup (all digits, at least 4 long)
\* issues exactly two requests: the tariff-flatten request with the full code
\* and the chapter-notes request with the first two digits of the input.
C4_ChapterRequests ==
    (op = "tariff_chapter_lookup" /\ pc \in {"awaiting", "done"}
        /\ isdigit(input) /\ Len(input) >= 4)
        => /\ Len(requests) = 2
           /\ requests[1] = Req("tariffs/chapter_flatten_tariffs", "code", input)
           /\ requests[2] = Req("chapters/by_code", "code", <<input[1], input[2]>>)

C4_Witness ==
    /\ op = "tariff_chapter_lookup"
    /\ pc = "awaiting"
    /\ isdigit(input)
    /\ Len(input) >= 4
    /\ input[1] # input[2]
    /\ Len(requests) = 2
    /\ requests[2].value = <<input[1], input[2]>>

\* C8: once both responses of tariff_chapter_lookup have arrived, each decides
\* its own field only: a bad tariff response gives rawData = [] and a good one
\* its parsed body; a bad notes response gives chapterNotes = null and a good
\* one its parsed body; the call returns in every combination.
C8_FieldsIndependent ==
    (pc = "done" /\ op = "tariff_chapter_lookup" /\ Answered)
        => /\ ret.kind = "return"
           /\ Bad(responses[1]) => ret.val.v.rawData = JList(<<>>)
           /\ Good(responses[1]) => ret.val.v.rawData = responses[1].body
           /\ Bad(responses[2]) => ret.val.v.chapterNotes = JNull
           /\ Good(responses[2]) => ret.val.v.chapterNotes = responses[2].body

C8_Witness ==
    /\ pc = "done"
    /\ op = "tariff_chapter_lookup"
    /\ Answered
    /\ Bad(responses[1])
    /\ Good(responses[2])
    /\ responses[2].body # JNull
    /\ ret.val.v.rawData = JList(<<>>)
    /\ ret.val.v.chapterNotes = responses[2].body

----------------------------------------------------------------------------
(* Middleware properties *)

Exempt(path) ==
    path \in _EXEMPT_PATHS \/ \E pfx \in _EXEMPT_PREFIXES : startswith(path, pfx)

Guarded ==
    authpc = "responded" /\ request.method # "OPTIONS" /\ ~Exempt(request.path)

BearerHeader ==
    /\ request.header.present
    /\ Len(request.header.value) >= 7
    /\ lower(SubSeq(request.header.value, 1, 7)) = <<"b", "e", "a", "r", "e", "r", " ">>

\* what follows the seven characters "bearer " in the header
AfterBearer == SubSeq(request.header.value, 8, Len(request.header.value))

\* C10 as stated: a guarded request reaches the downstream handler only if the
\* header starts with "bearer " (in any case) and the text after it equals
\* AUTH_TOKEN; every other guarded request gets 401 and no downstream call.
C10_AsStated ==
    Guarded =>
        IF BearerHeader /\ AfterBearer = AUTH_TOKEN
        THEN TRUE
        ELSE http.status = 401 /\ ~http.called

\* C10 amended: a guarded request reaches the downstream handler only if the
\* header starts with "bearer " (in any case) and the text after it, with
\* leading and trailing whitespace stripped, equals AUTH_TOKEN; every other
\* guarded request gets 401 and no downstream call.
C10_BearerRequired ==
    Guarded =>
        IF BearerHeader /\ strip(AfterBearer) = AUTH_TOKEN
        THEN http.called
        ELSE http.status = 401 /\ ~http.called

C10_Witness ==
    /\ Guarded
    /\ BearerHeader
    /\ request.header.value[1] = "B"
    /\ AfterBearer # AUTH_TOKEN
    /\ strip(AfterBearer) = AUTH_TOKEN
    /\ http.called

----------------------------------------------------------------------------
(* Schema properties *)

Digits == {"0", "1", "2", "3", "4", "5", "6", "7", "8", "9"}

DigitsOfLength(f, n) ==
    f.t = "str" /\ Len(f.v.elems) = n /\ \A i \in 1..n : f.v.elems[i] \in Digits

\* C5 as stated: every accepted ClassificationResult has exactly two other
\* suggested codes, none of them the same (hs_code, stat_code) pair as the best.
C5_TwoDistinctOthers ==
    accepted.ok =>
        /\ Len(accepted.model.other_suggested_codes) = 2
        /\ \A i \in 1..Len(accepted.model.other_suggested_codes) :
              ~ /\ accepted.model.other_suggested_codes[i].hs_code
                      = accepted.model.best_suggested_hs_code
                /\ accepted.model.other_suggested_codes[i].stat_code
                      = accepted.model.best_suggested_stat_code

\* C7 as stated: in every accepted ClassificationResult and every SuggestedCode
\* in it, the HS code is exactly 8 digits and the stat code exactly 2 digits.
C7_DigitCodes ==
    accepted.ok =>
        /\ DigitsOfLength(accepted.model.best_suggested_hs_code, 8)
        /\ DigitsOfLength(accepted.model.best_suggested_stat_code, 2)
        /\ \A i \in 1..Len(accepted.model.other_suggested_codes) :
              /\ DigitsOfLength(accepted.model.other_suggested_codes[i].hs_code, 8)
              /\ DigitsOfLength(accepted.model.other_suggested_codes[i].stat_code, 2)

----------------------------------------------------------------------------
(* Batch properties *)

Ended(i) == items[i].state \in {"Done", "Failed"}
EntriesOf(i) == {k \in 1..Len(response) : response[k].id = i}

====
